---- MODULE Spec2Model ----
(***************************************************************************)
(* Model of the open-addressing hash table of src/main.rs (mod h4sh),      *)
(* instantiated as HashTable<usize, usize>: linear probing, no deletion,   *)
(* growth by full rehash into a backing array of length 2L+1.              *)
(*                                                                         *)
(* Cells are kept in a sequence; the cell the code calls cells[i] is       *)
(* cells[i + 1] here, all index arithmetic is the code's (0-based).        *)
(***************************************************************************)
EXTENDS Integers, Sequences, FiniteSets, TLC

\* ---------------------------------------------------------------- bounds
\* Values the client stores are 0..MaxVal (0 is Value::default()).
MaxVal == 1
\* The client stops calling extend()/growing inserts after this many growths.
MaxGrowths == 2

\* The benchmark loop stops counting a key at this many occurrences.
MaxCount == 3
\* Texts hashed by the String digest have at most this many characters.
MaxChars == 7

\* ------------------------------------------------------ program constants
INITIAL_CAP == 11

\* ------------------------------------------------------- client's inputs
\* Keys the client inserts and updates freely, at any time.  0 is
\* Key::default(), the key unoccupied cells hold.
HotKeys == {0, 12}
\* Keys the client bulk-loads in this order (each once, with the value 1 of
\* the benchmark's insert(key, 1)),
\* interleaved at will with the other calls.  1, 12 and 23 collide at slot 1
\* of 11; 23 and 0 collide at slot 0 of 23; 10 and 21 collide at slot 10 of
\* 11, 21 wraps around to 0; 22 and 45 collide at slot 22 of 23, 45 wraps;
\* 24 and 47 collide with 1 at slot 1 of 23.  With the hot keys there are 25
\* keys, enough to fill 11 cells and then 23 cells.
FillSeq == <<1, 23, 10, 21, 9, 8, 7, 6, 5, 4, 3, 2,
             22, 45, 24, 47, 46, 13, 14, 15, 16, 17, 18>>
FillValue == 1
FillKeys == {FillSeq[i] : i \in 1..Len(FillSeq)}
\* Keys the client looks up and never inserts.
NeverKeys == {34}
Keys == HotKeys \cup FillKeys \cup NeverKeys
Values == 0..MaxVal
\* Keys the client looks up.
LookupKeys == {0, 21} \cup NeverKeys

\* Option<T>: None is the empty tuple, Some(x) the 1-tuple.
None == <<>>
Some(x) == <<x>>

\* ------------------------------------------------------------ the program
\* impl Hashable for usize
hash(key) == key

\* A usize is a sequence of 16-bit limbs, least significant first: 1, 2 or 4
\* limbs for the 16-, 32- and 64-bit targets.
UsizeLimbs == {1, 2, 4}
LimbBase == 2 ^ 16

\* n as usize (for n < 2^16): the literal 5381, and u8 -> usize of c.into()
into(n, w) == [i \in 1..w |-> IF i = 1 THEN n ELSE 0]

\* x << 5 on usize: the bits shifted out at the top are dropped, no panic
shl5(x) ==
    [i \in 1..Len(x) |->
        ((x[i] * 32) % LimbBase) + (IF i = 1 THEN 0 ELSE x[i - 1] \div (LimbBase \div 32))]

\* usize::wrapping_add: the carry out of the top limb is dropped, no panic
RECURSIVE carry_into(_, _, _)
carry_into(x, y, i) ==
    IF i = 1 THEN 0 ELSE (x[i - 1] + y[i - 1] + carry_into(x, y, i - 1)) \div LimbBase
wrapping_add(x, y) ==
    [i \in 1..Len(x) |-> (x[i] + y[i] + carry_into(x, y, i)) % LimbBase]

\* The loop body of hash without the "+ res": res = (res << 5) + c.
hash_step_shift_only(res, c) == wrapping_add(shl5(res), into(c, Len(res)))

\* impl Hashable for String, line 18: the body of the loop over the bytes
hash_step(res, c) == wrapping_add(wrapping_add(shl5(res), res), into(c, Len(res)))

\* impl Hashable for String: the loop over bytes i.. with accumulator res
RECURSIVE hash_loop(_, _, _)
hash_loop(bytes, i, res) ==
    IF i > Len(bytes) THEN res
    ELSE hash_loop(bytes, i + 1, hash_step(res, bytes[i]))

\* impl Hashable for String, on a target whose usize has w limbs
hash_string(bytes, w) == hash_loop(bytes, 1, into(5381, w))

\* String::bytes(): the UTF-8 bytes of the characters, in order
RECURSIVE bytes_of(_)
bytes_of(text) ==
    IF text = <<>> THEN <<>> ELSE text[1] \o bytes_of(Tail(text))

\* HashCell::default(): derive(Default) on {key, value, taken}
DefaultCell == [key |-> 0, value |-> 0, taken |-> FALSE]

\* vec![HashCell::default(); n]
VecOfDefault(n) == [i \in 1..n |-> DefaultCell]

\* HashTable::new
new == [cells |-> VecOfDefault(INITIAL_CAP), taken_count |-> 0, fault |-> "none"]

\* The for loop of get_index: n iterations left, returns the index at which
\* the loop stops (break on an unoccupied cell or on the key, or exhaustion).
RECURSIVE get_index_loop(_, _, _, _)
get_index_loop(cells, key, index, n) ==
    IF n = 0 THEN index
    ELSE IF ~cells[index + 1].taken THEN index
    ELSE IF cells[index + 1].key = key THEN index
    ELSE get_index_loop(cells, key, (index + 1) % Len(cells), n - 1)

\* The for loop of get_index: the number of iterations left when the loop
\* stops; 0 when no iteration hit a break (all L cells visited).
RECURSIVE get_index_left(_, _, _, _)
get_index_left(cells, key, index, n) ==
    IF n = 0 THEN 0
    ELSE IF ~cells[index + 1].taken THEN n
    ELSE IF cells[index + 1].key = key THEN n
    ELSE get_index_left(cells, key, (index + 1) % Len(cells), n - 1)

\* get_index(key) visits every cell without hitting a break.
get_index_exhausts(cells, key) ==
    get_index_left(cells, key, hash(key) % Len(cells), Len(cells)) = 0

\* get_index with the occupancy test of line 118 left out.
get_index_untaken(cells, key) ==
    LET index == get_index_loop(cells, key, hash(key) % Len(cells), Len(cells))
    IN  IF cells[index + 1].key = key THEN Some(index) ELSE None

\* HashTable::get_index
get_index(cells, key) ==
    LET index == get_index_loop(cells, key, hash(key) % Len(cells), Len(cells))
    IN  IF cells[index + 1].taken /\ cells[index + 1].key = key
        THEN Some(index)
        ELSE None

\* HashTable::get: the value the returned reference points to
get(cells, key) ==
    LET i == get_index(cells, key)
    IN  IF i = None THEN None ELSE Some(cells[i[1] + 1].value)

\* HashTable::get_mut: the returned &mut Value is the value field of the
\* cell at this index
get_mut(cells, key) == get_index(cells, key)

\* insert_loop probing towards lower indices.
RECURSIVE insert_loop_back(_, _, _)
insert_loop_back(cells, index, n) ==
    IF ~cells[index + 1].taken THEN index
    ELSE IF n = 0 THEN -1
    ELSE insert_loop_back(cells, (index + Len(cells) - 1) % Len(cells), n - 1)

\* insert_loop advancing two cells at a time.
RECURSIVE insert_loop_skip(_, _, _)
insert_loop_skip(cells, index, n) ==
    IF ~cells[index + 1].taken THEN index
    ELSE IF n = 0 THEN -1
    ELSE insert_loop_skip(cells, (index + 2) % Len(cells), n - 1)

\* The while loop of insert: advances while the cell is occupied.  With no
\* unoccupied cell the loop never exits: -1 stands for that divergence.
RECURSIVE insert_loop(_, _, _)
insert_loop(cells, index, n) ==
    IF ~cells[index + 1].taken THEN index
    ELSE IF n = 0 THEN -1
    ELSE insert_loop(cells, (index + 1) % Len(cells), n - 1)

\* The while loop of insert: the number of cells whose taken flag it reads
\* before it exits, -1 if it never exits.
RECURSIVE insert_loop_reads(_, _, _)
insert_loop_reads(cells, index, n) ==
    IF ~cells[index + 1].taken THEN 1
    ELSE IF n = 0 THEN -1
    ELSE LET r == insert_loop_reads(cells, (index + 1) % Len(cells), n - 1)
         IN  IF r = -1 THEN -1 ELSE r + 1

\* No growth trigger at all.
must_extend_never(self) == FALSE

\* The growth trigger firing one entry early.
must_extend_early(self) == self.taken_count + 1 >= Len(self.cells)

\* The growth trigger with > for >=.
must_extend_strict(self) == self.taken_count > Len(self.cells)

\* insert, line 86: the growth trigger
must_extend(self) == self.taken_count >= Len(self.cells)

\* store without line 99: the value of the cell is left as it was.
store_no_value(self, index, key, new_value) ==
    [self EXCEPT !.cells[index + 1] = [key |-> key, value |-> @.value, taken |-> TRUE],
                 !.taken_count = @ + 1]

\* store without line 100: taken_count is not incremented.
store_no_count(self, index, key, new_value) ==
    [self EXCEPT !.cells[index + 1] = [key |-> key, value |-> new_value, taken |-> TRUE]]

\* insert, lines 97-100: occupy the cell found
store(self, index, key, new_value) ==
    [self EXCEPT !.cells[index + 1] = [key |-> key, value |-> new_value, taken |-> TRUE],
                 !.taken_count = @ + 1]

\* insert, lines 89-100: what insert does after the optional extend
insert_place(s, key, new_value) ==
    IF ~(s.taken_count < Len(s.cells))
    THEN [s EXCEPT !.fault = "insert_assert"]
    ELSE LET index == insert_loop(s.cells, hash(key) % Len(s.cells), Len(s.cells))
         IN  IF index = -1
             THEN [s EXCEPT !.fault = "diverge"]
             ELSE store(s, index, key, new_value)

\* extend, lines 68-71: the new table
extend_alloc(self) ==
    [cells |-> VecOfDefault(Len(self.cells) * 2 + 1), taken_count |-> 0,
     fault |-> "none"]

\* The write through the reference with = 1 for += 1.
bump_reset(self, index) == [self EXCEPT !.cells[index + 1].value = 1]

\* benchmark, line 141: *value += 1 through the reference get_mut returned
bump(self, index) == [self EXCEPT !.cells[index + 1].value = @ + 1]

RECURSIVE insert(_, _, _)
RECURSIVE extend(_)
RECURSIVE migrate(_, _, _)
RECURSIVE migrate_same_index(_, _, _)

\* insert without the update path of lines 83-84.
insert_no_update(self, key, new_value) ==
    IF Len(self.cells) = 0 THEN [self EXCEPT !.fault = "rem_by_zero"]
    ELSE
    LET s == IF must_extend(self) THEN extend(self) ELSE self
    IN  IF s.fault # "none" THEN s
        ELSE IF ~(s.taken_count < Len(s.cells))
        THEN [s EXCEPT !.fault = "insert_assert"]
        ELSE LET index == insert_loop(s.cells, hash(key) % Len(s.cells),
                                      Len(s.cells))
             IN  IF index = -1
                 THEN [s EXCEPT !.fault = "diverge"]
                 ELSE store(s, index, key, new_value)

\* insert with the growth test made before the lookup of the key.
insert_grow_first(self, key, new_value) ==
    IF Len(self.cells) = 0 THEN [self EXCEPT !.fault = "rem_by_zero"]
    ELSE
    LET s == IF must_extend(self) THEN extend(self) ELSE self
        old == get_mut(s.cells, key)
    IN  IF s.fault # "none" THEN s
        ELSE IF old # None
        THEN [s EXCEPT !.cells[old[1] + 1].value = new_value]
        ELSE IF ~(s.taken_count < Len(s.cells))
        THEN [s EXCEPT !.fault = "insert_assert"]
        ELSE LET index == insert_loop(s.cells, hash(key) % Len(s.cells),
                                      Len(s.cells))
             IN  IF index = -1
                 THEN [s EXCEPT !.fault = "diverge"]
                 ELSE store(s, index, key, new_value)

\* HashTable::insert.  A table whose fault is not "none" has panicked.
insert(self, key, new_value) ==
    IF Len(self.cells) = 0 THEN [self EXCEPT !.fault = "rem_by_zero"]
    ELSE
    LET old == get_mut(self.cells, key)
    IN  IF old # None
        THEN [self EXCEPT !.cells[old[1] + 1].value = new_value]
        ELSE LET s == IF must_extend(self) THEN extend(self) ELSE self
             IN  IF s.fault # "none" THEN s
                 ELSE IF ~(s.taken_count < Len(s.cells))
                 THEN [s EXCEPT !.fault = "insert_assert"]
                 ELSE LET index == insert_loop(s.cells, hash(key) % Len(s.cells),
                                               Len(s.cells))
                      IN  IF index = -1
                          THEN [s EXCEPT !.fault = "diverge"]
                          ELSE store(s, index, key, new_value)

\* The body of the migration loop without the test of cell.taken.
migrate_cell_always(cell, new_self) == insert(new_self, cell.key, cell.value)

\* extend, lines 74-76: the body of the migration loop for one cell
migrate_cell(cell, new_self) ==
    IF cell.taken THEN insert(new_self, cell.key, cell.value) ELSE new_self

\* Migration that copies each occupied cell to the same index of the new
\* array instead of re-inserting its key.
migrate_same_index(cells, i, new_self) ==
    IF i >= Len(cells) \/ new_self.fault # "none" THEN new_self
    ELSE IF cells[i + 1].taken
         THEN migrate_same_index(cells, i + 1,
                  [new_self EXCEPT !.cells[i + 1] = cells[i + 1],
                                   !.taken_count = @ + 1])
         ELSE migrate_same_index(cells, i + 1, new_self)

\* extend, lines 73-77: re-insert the occupied cells i.. of the old array
migrate(cells, i, new_self) ==
    IF i >= Len(cells) \/ new_self.fault # "none" THEN new_self
    ELSE IF cells[i + 1].taken
         THEN migrate(cells, i + 1,
                      insert(new_self, cells[i + 1].key, cells[i + 1].value))
         ELSE migrate(cells, i + 1, new_self)

\* extend whose migration loop starts at the second cell.
extend_skip_first(self) ==
    IF ~(Len(self.cells) > 0) THEN [self EXCEPT !.fault = "extend_assert"]
    ELSE LET new_self == [cells |-> VecOfDefault(Len(self.cells) * 2 + 1),
                          taken_count |-> 0, fault |-> "none"]
             migrated == migrate(self.cells, 1, new_self)
         IN  IF migrated.fault # "none"
             THEN [self EXCEPT !.fault = migrated.fault]
             ELSE migrated

\* extend that doubles the length without adding one.
extend_double(self) ==
    IF ~(Len(self.cells) > 0) THEN [self EXCEPT !.fault = "extend_assert"]
    ELSE LET new_self == [cells |-> VecOfDefault(Len(self.cells) * 2),
                          taken_count |-> 0, fault |-> "none"]
             migrated == migrate(self.cells, 0, new_self)
         IN  IF migrated.fault # "none"
             THEN [self EXCEPT !.fault = migrated.fault]
             ELSE migrated

\* extend whose new table starts with the old taken_count instead of 0.
extend_keep_count(self) ==
    IF ~(Len(self.cells) > 0) THEN [self EXCEPT !.fault = "extend_assert"]
    ELSE LET new_self == [cells |-> VecOfDefault(Len(self.cells) * 2 + 1),
                          taken_count |-> self.taken_count, fault |-> "none"]
             migrated == migrate(self.cells, 0, new_self)
         IN  IF migrated.fault # "none"
             THEN [self EXCEPT !.fault = migrated.fault]
             ELSE migrated

\* extend whose new array has the length of the old one.
extend_same_len(self) ==
    IF ~(Len(self.cells) > 0) THEN [self EXCEPT !.fault = "extend_assert"]
    ELSE LET new_self == [cells |-> VecOfDefault(Len(self.cells)),
                          taken_count |-> 0, fault |-> "none"]
             migrated == migrate(self.cells, 0, new_self)
         IN  IF migrated.fault # "none"
             THEN [self EXCEPT !.fault = migrated.fault]
             ELSE migrated

\* HashTable::extend
extend(self) ==
    IF ~(Len(self.cells) > 0) THEN [self EXCEPT !.fault = "extend_assert"]
    ELSE LET new_self == [cells |-> VecOfDefault(Len(self.cells) * 2 + 1),
                          taken_count |-> 0, fault |-> "none"]
             migrated == migrate(self.cells, 0, new_self)
         IN  IF migrated.fault # "none"
             THEN [self EXCEPT !.fault = migrated.fault]
             ELSE migrated

\* ------------------------------------------------------------------ state
VARIABLES
    cells,        \* HashTable.cells
    taken_count,  \* HashTable.taken_count
    fault,        \* "none", or the panic / divergence that ended the process
    last,         \* the call that produced this state and what it returned
    loaded,       \* client: how many keys of FillSeq it has inserted
    written,      \* history: key -> Some(value of the latest insert) or None
    text,         \* a String key: its characters, each a sequence of UTF-8 bytes
    width,        \* the number of limbs of usize on the target
    digest,       \* None, or Some(text.hash())
    pc,           \* "idle" between calls, "extend" inside the loop of extend,
                  \* "insert" between the extend and the rest of insert
    new_self,     \* extend's local new_self (None outside extend)
    cursor        \* extend's loop position in self.cells

tableVars == <<cells, taken_count, fault, last, loaded, written>>
digestVars == <<text, width, digest>>
stepVars == <<pc, new_self, cursor>>
vars == <<cells, taken_count, fault, last, loaded, written, text, width, digest,
          pc, new_self, cursor>>

self == [cells |-> cells, taken_count |-> taken_count, fault |-> fault]

\* Length after n growths from INITIAL_CAP.
RECURSIVE CapAfter(_)
CapAfter(n) == IF n = 0 THEN INITIAL_CAP ELSE 2 * CapAfter(n - 1) + 1

Occupied(cs) == {i \in 0..(Len(cs) - 1) : cs[i + 1].taken}
CellsOf(cs, k) == {i \in Occupied(cs) : cs[i + 1].key = k}

\* The record of a call: its arguments, what it returned, and the length and
\* count of the table it was made on.
Call(op, key, value, ret) ==
    [op |-> op, key |-> key, value |-> value, ret |-> ret,
     len0 |-> Len(cells), count0 |-> taken_count]

\* let mut hash = HashTable::<usize, usize>::new()
TableInit ==
    /\ cells = new.cells
    /\ taken_count = new.taken_count
    /\ fault = new.fault
    /\ last = [op |-> "new", key |-> 0, value |-> 0, ret |-> None,
               len0 |-> INITIAL_CAP, count0 |-> 0]
    /\ loaded = 0
    /\ written = [k \in Keys |-> None]

\* No String key is hashed by the usize-keyed table.
DigestIdle == text = <<>> /\ width = 4 /\ digest = None

\* No call is in progress.
StepIdle == pc = "idle" /\ new_self = None /\ cursor = 0

Init == TableInit /\ DigestIdle /\ StepIdle

Install(t) ==
    /\ cells' = t.cells
    /\ taken_count' = t.taken_count
    /\ fault' = t.fault

\* client: table.insert(key, new_value)
InsertCall(key, new_value) ==
    /\ fault = "none"
    /\ (written[key] = None /\ taken_count >= Len(cells))
           => Len(cells) < CapAfter(MaxGrowths)
    /\ Install(insert(self, key, new_value))
    /\ last' = Call("insert", key, new_value, None)
    /\ written' = [written EXCEPT ![key] = Some(new_value)]
    /\ UNCHANGED <<digestVars, stepVars>>

\* client: insert or update a hot key
InsertHot ==
    /\ \E key \in HotKeys, new_value \in Values : InsertCall(key, new_value)
    /\ UNCHANGED loaded

\* client: insert the next key of the bulk load
InsertFill ==
    /\ loaded < Len(FillSeq)
    /\ InsertCall(FillSeq[loaded + 1], FillValue)
    /\ loaded' = loaded + 1

\* client: table.get(&key)
Get ==
    \E key \in LookupKeys :
        /\ fault = "none"
        /\ fault' = IF Len(cells) = 0 THEN "rem_by_zero" ELSE "none"
        /\ last' = Call("get", key, 0, IF Len(cells) = 0 THEN None ELSE get(cells, key))
        /\ UNCHANGED <<cells, taken_count, loaded, written>>
        /\ UNCHANGED <<digestVars, stepVars>>

\* get_mut that occupies a cell with the default value when the key is absent.
GetMutOrDefault ==
    \E key \in LookupKeys :
        /\ fault = "none"
        /\ Len(cells) > 0
        /\ taken_count < Len(cells)
        /\ Install(IF get_mut(cells, key) = None THEN insert(self, key, 0) ELSE self)
        /\ last' = Call("get_mut", key, 0, get_mut(cells, key))
        /\ UNCHANGED <<loaded, written>>
        /\ UNCHANGED <<digestVars, stepVars>>

\* client: table.get_mut(&key), the reference is not written through
GetMut ==
    \E key \in LookupKeys :
        /\ fault = "none"
        /\ fault' = IF Len(cells) = 0 THEN "rem_by_zero" ELSE "none"
        /\ last' = Call("get_mut", key, 0,
                        IF Len(cells) = 0 THEN None ELSE get_mut(cells, key))
        /\ UNCHANGED <<cells, taken_count, loaded, written>>
        /\ UNCHANGED <<digestVars, stepVars>>

\* client: table.extend()
Extend ==
    /\ fault = "none"
    /\ Len(cells) < CapAfter(MaxGrowths)
    /\ Install(extend(self))
    /\ last' = Call("extend", 0, 0, None)
    /\ UNCHANGED <<loaded, written>>
    /\ UNCHANGED <<digestVars, stepVars>>

Next == InsertHot \/ InsertFill \/ Get \/ GetMut \/ Extend

Spec == Init /\ [][Next]_vars

\* ------------------------------------------------- the String digest alone
\* The characters of the texts: "a" (one byte) and "e acute" (two bytes).
Chars == {<<97>>, <<195, 169>>}
Texts == UNION {[1..n -> Chars] : n \in 0..MaxChars}

DigestInit ==
    /\ TableInit
    /\ StepIdle
    /\ text \in Texts
    /\ width \in UsizeLimbs
    /\ digest = None

\* text.hash()
HashString ==
    /\ digest = None
    /\ digest' = Some(hash_string(bytes_of(text), width))
    /\ UNCHANGED <<text, width>>
    /\ UNCHANGED <<tableVars, stepVars>>

DigestNext == HashString

DigestSpec == DigestInit /\ [][DigestNext]_vars

\* --------------------------------------- extend, one loop iteration a step
\* insert(key, _) goes through extend: lines 83 and 86.
Grows(key) == get_mut(cells, key) = None /\ must_extend(self)

\* client: an insert that does not grow the table, as one step
StepInsert ==
    /\ pc = "idle"
    /\ \/ /\ \E key \in HotKeys, new_value \in Values :
                  ~Grows(key) /\ InsertCall(key, new_value)
           /\ UNCHANGED loaded
       \/ /\ loaded < Len(FillSeq)
           /\ ~Grows(FillSeq[loaded + 1])
           /\ InsertCall(FillSeq[loaded + 1], FillValue)
           /\ loaded' = loaded + 1

\* extend, lines 67-71, entered from the client (op = "extend") or from
\* line 87 of insert(key, new_value)
EnterExtend(op, key, new_value) ==
    /\ pc = "idle"
    /\ fault = "none"
    /\ Len(cells) < CapAfter(MaxGrowths)
    /\ last' = Call(op, key, new_value, None)
    /\ IF Len(cells) > 0
       THEN fault' = "none" /\ pc' = "extend" /\ new_self' = extend_alloc(self)
       ELSE fault' = "extend_assert" /\ UNCHANGED <<pc, new_self>>
    /\ cursor' = 0
    /\ UNCHANGED <<cells, taken_count, loaded, written, digestVars>>

BeginExtend ==
    \/ EnterExtend("extend", 0, 0)
    \/ \E key \in HotKeys, new_value \in Values :
           Grows(key) /\ EnterExtend("insert", key, new_value)
    \/ /\ loaded < Len(FillSeq)
       /\ Grows(FillSeq[loaded + 1])
       /\ EnterExtend("insert", FillSeq[loaded + 1], FillValue)

\* extend, lines 73-77: one iteration of the loop over self.cells
MigrateStep ==
    /\ pc = "extend"
    /\ fault = "none"
    /\ cursor < Len(cells)
    /\ new_self' = migrate_cell(cells[cursor + 1], new_self)
    /\ fault' = new_self'.fault
    /\ cursor' = cursor + 1
    /\ UNCHANGED <<cells, taken_count, last, loaded, written, pc, digestVars>>

\* FinishExtend leaving the loop one cell early.
FinishExtendEarly ==
    /\ pc = "extend"
    /\ fault = "none"
    /\ cursor >= Len(cells) - 1
    /\ Install(new_self)
    /\ pc' = IF last.op = "insert" THEN "insert" ELSE "idle"
    /\ new_self' = None
    /\ cursor' = 0
    /\ UNCHANGED <<last, loaded, written, digestVars>>

\* extend, line 79: *self = new_self, after the loop
FinishExtend ==
    /\ pc = "extend"
    /\ fault = "none"
    /\ cursor = Len(cells)
    /\ Install(new_self)
    /\ pc' = IF last.op = "insert" THEN "insert" ELSE "idle"
    /\ new_self' = None
    /\ cursor' = 0
    /\ UNCHANGED <<last, loaded, written, digestVars>>

\* insert, lines 89-100, after the extend of line 87 has returned
InsertRest ==
    /\ pc = "insert"
    /\ fault = "none"
    /\ Install(insert_place(self, last.key, last.value))
    /\ written' = [written EXCEPT ![last.key] = Some(last.value)]
    /\ loaded' = IF last.key \in HotKeys THEN loaded ELSE loaded + 1
    /\ pc' = "idle"
    /\ UNCHANGED <<last, new_self, cursor, digestVars>>

StepNext == StepInsert \/ BeginExtend \/ MigrateStep \/ FinishExtend \/ InsertRest

StepSpec == Init /\ [][StepNext]_vars

\* ------------------------------------------- the occurrence-counting loop
\* Keys the benchmark loop draws again and again: the hot keys and, once it
\* is loaded, key 21 (which wraps around in the table of 11 cells).
RepeatKeys == HotKeys \cup {21}

\* benchmark_our_virgin_table, lines 139-144: one iteration with this key.
\* written[key] is Some(number of occurrences of key so far).
BenchIteration(key) ==
    /\ fault = "none"
    /\ LET value == get_mut(cells, key)
       IN  IF value # None
           THEN /\ written[key] # None /\ written[key][1] < MaxCount
                /\ Install(bump(self, value[1]))
                /\ last' = Call("bump", key, 0, value)
                /\ written' = [written EXCEPT ![key] = Some(@[1] + 1)]
                /\ UNCHANGED <<digestVars, stepVars>>
           ELSE InsertCall(key, 1)

\* the loop draws a key it may have drawn before
BenchRepeat ==
    /\ \E key \in RepeatKeys :
           /\ key \in HotKeys \/ written[key] # None
           /\ BenchIteration(key)
    /\ UNCHANGED loaded

\* the loop draws the next key of the bulk load
BenchFresh ==
    /\ loaded < Len(FillSeq)
    /\ BenchIteration(FillSeq[loaded + 1])
    /\ loaded' = loaded + 1

BenchNext == BenchRepeat \/ BenchFresh

BenchSpec == Init /\ [][BenchNext]_vars

\* ------------------------------------------------------------- properties
\* The call that produced this state was insert and it returned.
Inserted == last.op = "insert" /\ fault = "none"
\* ... on a table with no unoccupied cell, which grew.
InsertedGrowing ==
    Inserted /\ last.count0 >= last.len0 /\ Len(cells) = 2 * last.len0 + 1

\* C1 (round trip): right after insert(k, v) has returned, get(k) is
\* Some(v), whatever the table was before: fresh, partly filled or full.
RoundTrip == Inserted => get(cells, last.key) = Some(last.value)

\* An insert of value 1 that found the table full, grew it, and is read back.
RoundTripWitness ==
    /\ InsertedGrowing
    /\ last.value = 1
    /\ get(cells, last.key) = Some(1)

\* C2 (growth preserves entries): whatever inserts and growths happened, get
\* returns for every key the value of the latest insert of that key, and
\* None for a key never inserted.
GrowthPreservesEntries ==
    fault = "none" => \A k \in Keys : get(cells, k) = written[k]

\* All 25 keys are in a table that grew twice, the second time because an
\* insert found all 23 cells occupied.
GrowthPreservesEntriesWitness ==
    /\ fault = "none"
    /\ Len(cells) = CapAfter(2)
    /\ \A k \in Keys \ NeverKeys : written[k] # None /\ get(cells, k) = written[k]
    /\ \E k \in HotKeys : written[k] = Some(0)

\* C3 (update, not duplicate): insert(k, v2) of a key that some occupied cell
\* holds overwrites that cell's value and nothing else: same occupied cells,
\* same taken_count, same length (also when the table is full), one cell
\* holding k, and get(k) is Some(v2).
UpdateInPlace ==
    [][(last'.op = "insert" /\ CellsOf(cells, last'.key) # {})
         => /\ fault' = "none"
            /\ \E i \in CellsOf(cells, last'.key) :
                   cells' = [cells EXCEPT ![i + 1].value = last'.value]
            /\ Occupied(cells') = Occupied(cells)
            /\ taken_count' = taken_count
            /\ Len(cells') = Len(cells)
            /\ Cardinality(CellsOf(cells', last'.key)) = 1
            /\ get(cells', last'.key) = Some(last'.value)]_vars

\* An insert on a table with no unoccupied cell that did not grow it: the
\* key was there, and now has the value 0.
UpdateInPlaceWitness ==
    /\ Inserted
    /\ last.count0 = last.len0
    /\ Len(cells) = last.len0
    /\ taken_count = last.count0
    /\ last.value = 0
    /\ get(cells, last.key) = Some(0)

\* C4 (miss returns absent): for a key that was never inserted, get and
\* get_mut return None and do not fault, in every state, the key 0 that
\* unoccupied cells hold included.
MissReturnsAbsent ==
    /\ fault = "none" =>
           \A k \in Keys : written[k] = None =>
               get(cells, k) = None /\ get_mut(cells, k) = None
    /\ (last.op \in {"get", "get_mut"} /\ written[last.key] = None)
           => last.ret = None /\ fault = "none"

\* get_mut(0) on a full table that never held key 0.
MissReturnsAbsentWitness ==
    /\ last.op = "get_mut"
    /\ last.key = 0
    /\ written[0] = None
    /\ taken_count = Len(cells)
    /\ last.ret = None

\* L is 11 or comes from 11 by repeating L -> 2L+1.
RECURSIVE IsCapacity(_)
IsCapacity(L) ==
    \/ L = INITIAL_CAP
    \/ L > INITIAL_CAP /\ L % 2 = 1 /\ IsCapacity((L - 1) \div 2)

\* C5 (capacity invariant): taken_count never exceeds the length, and the
\* length is odd and one of 11, 23, 47, 95, ...
CapacityInvariant ==
    /\ taken_count <= Len(cells)
    /\ Len(cells) % 2 = 1
    /\ IsCapacity(Len(cells))

\* A full table of 23 cells, reached by growth.
CapacityInvariantWitness ==
    /\ Len(cells) = 2 * INITIAL_CAP + 1
    /\ taken_count = Len(cells)

\* C6 (key uniqueness): no two occupied cells hold the same key, in every
\* reachable state, growths and inserts of existing keys included.
KeyUniqueness ==
    \A i \in Occupied(cells), j \in Occupied(cells) :
        cells[i + 1].key = cells[j + 1].key => i = j

\* An insert of a key already in a full table of 23 cells (the next new key
\* grows it): the count is unchanged and one cell holds the key.
KeyUniquenessWitness ==
    /\ Inserted
    /\ last.len0 = 2 * INITIAL_CAP + 1
    /\ last.count0 = last.len0
    /\ taken_count = last.count0
    /\ Cardinality(CellsOf(cells, last.key)) = 1

\* C7 (load trigger): insert grows the table exactly when no occupied cell
\* holds the key and taken_count >= length at the call; it then grows once,
\* to 2L+1, and every key inserted so far is retrievable; an insert of a new
\* key into a table with room fills one more cell without growing.
LoadTrigger ==
    [][last'.op = "insert" =>
         LET absent == CellsOf(cells, last'.key) = {}
             full == taken_count >= Len(cells)
         IN  /\ (Len(cells') # Len(cells)) <=> (absent /\ full)
             /\ (absent /\ full) =>
                    /\ Len(cells') = 2 * Len(cells) + 1
                    /\ taken_count' = taken_count + 1
                    /\ \A k \in Keys : get(cells', k) = written'[k]
             /\ (absent /\ ~full) => taken_count' = taken_count + 1]_vars

\* The 12th distinct key went into a full table of 11 cells: 23 cells hold
\* 12 keys, all retrievable.
LoadTriggerWitness ==
    /\ Inserted
    /\ last.len0 = INITIAL_CAP
    /\ last.count0 = INITIAL_CAP
    /\ Len(cells) = 2 * INITIAL_CAP + 1
    /\ taken_count = INITIAL_CAP + 1
    /\ Cardinality({k \in Keys : get(cells, k) # None}) = INITIAL_CAP + 1

\* In table B, index i is the first unoccupied cell in the cyclic order
\* starting at the home slot of key k.
FirstFree(B, k, i) ==
    LET L == Len(B)
        h == hash(k) % L
    IN  /\ ~B[i + 1].taken
        /\ \A d \in 0..(L - 1) : d < ((i - h) % L) => B[((h + d) % L) + 1].taken

\* C8 (linear-probe placement): an insert of a key that no occupied cell
\* holds puts it, in the table as it is after the growth if there is one,
\* into the first unoccupied cell of the cyclic order from digest(k) mod L,
\* changes no other cell, adds one to taken_count, and leaves get of every
\* other key as it was.
LinearProbePlacement ==
    [][(last'.op = "insert" /\ CellsOf(cells, last'.key) = {}) =>
         LET k == last'.key
             B == IF Len(cells') = Len(cells) THEN cells ELSE extend(self).cells
         IN  /\ Len(B) = Len(cells')
             /\ \E i \in 0..(Len(B) - 1) :
                    /\ FirstFree(B, k, i)
                    /\ cells' = [B EXCEPT ![i + 1] =
                                    [key |-> k, value |-> last'.value, taken |-> TRUE]]
             /\ taken_count' = taken_count + 1
             /\ \A k2 \in Keys \ {k} : get(cells', k2) = get(cells, k2)]_vars

\* Keys 1, 12, 23, inserted in this order into the fresh table, sit in
\* slots 1, 2, 3.
LinearProbePlacementWitness ==
    /\ Inserted
    /\ last.key = 23
    /\ Len(cells) = INITIAL_CAP
    /\ taken_count = 3
    /\ cells[1 + 1].taken /\ cells[1 + 1].key = 1
    /\ cells[2 + 1].taken /\ cells[2 + 1].key = 12
    /\ cells[3 + 1].taken /\ cells[3 + 1].key = 23

\* C9 (no fatal assertion): neither the assert of insert (taken_count < len
\* after the optional extend) nor the assert of extend (len > 0) ever fails.
NoFatalAssertion == fault \notin {"insert_assert", "extend_assert"}

\* An insert into a full table of 23 cells went through extend and both
\* assertions and returned.
NoFatalAssertionWitness ==
    /\ InsertedGrowing
    /\ last.len0 = 2 * INITIAL_CAP + 1
    /\ taken_count < Len(cells)

\* C10 (lookup has no side effects): a get or get_mut call, hit or miss,
\* leaves every cell, the length and taken_count as they were.
LookupNoSideEffects ==
    [][last'.op \in {"get", "get_mut"} =>
         /\ cells' = cells
         /\ Len(cells') = Len(cells)
         /\ taken_count' = taken_count]_vars

\* A get of key 21 that hit, after get_index wrapped around the end of a
\* full table of 11 cells.
LookupNoSideEffectsWitness ==
    /\ last.op = "get"
    /\ last.key = 21
    /\ last.ret = Some(1)
    /\ last.len0 = INITIAL_CAP
    /\ last.count0 = INITIAL_CAP
    /\ cells[0 + 1].key = 21

\* (acc * 33 + c) mod 256^n on n base-256 digits, least significant first:
\* the product is formed digit by digit with c as the carry into digit 1.
RECURSIVE Djb2Digit(_, _, _)
Djb2Digit(acc, c, i) ==
    acc[i] * 33 + (IF i = 1 THEN c ELSE Djb2Digit(acc, c, i - 1) \div 256)
Djb2Step(acc, c) == [i \in 1..Len(acc) |-> Djb2Digit(acc, c, i) % 256]

\* The fold acc := (acc * 33 + c) mod 256^n from 5381 over the bytes.
RECURSIVE Djb2Fold(_, _, _)
Djb2Fold(bytes, i, acc) ==
    IF i > Len(bytes) THEN acc
    ELSE Djb2Fold(bytes, i + 1, Djb2Step(acc, bytes[i]))
Djb2(bytes, n) ==
    Djb2Fold(bytes, 1, [i \in 1..n |-> IF i = 1 THEN 5381 % 256
                                       ELSE IF i = 2 THEN 5381 \div 256 ELSE 0])

\* The base-256 digits of a usize.
Digits(x) ==
    [i \in 1..(2 * Len(x)) |->
        IF i % 2 = 1 THEN x[(i + 1) \div 2] % 256 ELSE x[i \div 2] \div 256]

\* C11 (DJB2 with wrapping arithmetic): for every text and word width W the
\* String digest is a W-bit word (no overflow error) equal to the fold
\* acc := (acc * 33 + c) mod 2^W from 5381 over the bytes in order; the
\* digest of an integer key is the key.
DigestIsDjb2 ==
    /\ digest # None =>
           /\ digest[1] \in [1..width -> 0..(LimbBase - 1)]
           /\ Digits(digest[1]) = Djb2(bytes_of(text), 2 * width)
    /\ \A k \in Keys : hash(k) = k

\* The digest of a 14-byte text on the 64-bit target, where the fold without
\* the reduction mod 2^64 has more than 64 bits.
DigestIsDjb2Witness ==
    /\ digest # None
    /\ width = 4
    /\ Len(bytes_of(text)) = 14
    /\ \E i \in 9..10 : Djb2(bytes_of(text), 10)[i] # 0
    /\ Digits(digest[1]) = Djb2(bytes_of(text), 8)

\* In table cs the cells from the home slot of the key of cell i up to and
\* including cell i, in cyclic order, are all occupied.
PathOccupied(cs, i) ==
    LET L == Len(cs)
        h == hash(cs[i + 1].key) % L
    IN  \A d \in 0..(L - 1) : d <= ((i - h) % L) => cs[((h + d) % L) + 1].taken

\* C12 (extend is a content-preserving full rehash): a call of extend, on a
\* full table or not, replaces the array by one of length 2L+1, keeps
\* taken_count, leaves get(k) as it was for every key, and puts every key on
\* the probe sequence of digest(k) mod (2L+1).
ExtendPreservesContent ==
    [][last'.op = "extend" =>
         /\ fault' = "none"
         /\ Len(cells') = 2 * Len(cells) + 1
         /\ taken_count' = taken_count
         /\ \A k \in Keys : get(cells', k) = get(cells, k)
         /\ {cells'[i + 1].key : i \in Occupied(cells')}
               = {cells[i + 1].key : i \in Occupied(cells)}
         /\ \A i \in Occupied(cells') : PathOccupied(cells', i)]_vars

\* extend called by the client on a table of 11 cells that was not full:
\* key 12 moved from the probe run of slot 1 to slot 12 of 23.
ExtendPreservesContentWitness ==
    /\ last.op = "extend"
    /\ fault = "none"
    /\ last.len0 = INITIAL_CAP
    /\ last.count0 \in 2..(INITIAL_CAP - 1)
    /\ taken_count = last.count0
    /\ get_index(cells, 12) = Some(12)
    /\ get(cells, 12) = written[12]

\* C13 (taken_count is exact): taken_count is the number of cells whose
\* occupancy flag is set, in every reachable state, the tables built by
\* extend included.
TakenCountExact == taken_count = Cardinality(Occupied(cells))

\* The table built by extend from a full table: as many occupied cells as
\* the old table had cells.
TakenCountExactWitness ==
    /\ last.op = "extend"
    /\ fault = "none"
    /\ last.count0 = last.len0
    /\ Len(cells) = 2 * last.len0 + 1
    /\ Cardinality(Occupied(cells)) = last.len0
    /\ taken_count = last.len0

\* C14 (insertion probing terminates): no call diverges; when insert takes
\* the insertion path, the table it probes (the grown one if it grew) has
\* taken_count < length strictly, and the while loop exits at an unoccupied
\* cell after reading at most L cells.
InsertProbingTerminates ==
    [][/\ fault' # "diverge"
       /\ (last'.op = "insert" /\ CellsOf(cells, last'.key) = {}) =>
              LET B == IF Len(cells') # Len(cells) THEN extend(self) ELSE self
                  L == Len(B.cells)
                  h == hash(last'.key) % L
                  reads == insert_loop_reads(B.cells, h, L)
              IN  /\ B.taken_count < L
                  /\ reads \in 1..L
                  /\ ~B.cells[((h + reads - 1) % L) + 1].taken
                  /\ \A d \in 0..(reads - 2) : B.cells[((h + d) % L) + 1].taken
                  /\ get_index(cells', last'.key) = Some((h + reads - 1) % L)]_vars

\* An insert that found the table full, grew it, and probed past the home
\* slot of its key in the new array.
InsertProbingTerminatesWitness ==
    /\ InsertedGrowing
    /\ taken_count < Len(cells)
    /\ get_index(cells, last.key) # None
    /\ get_index(cells, last.key) # Some(hash(last.key) % Len(cells))

\* The call that produced this state was a lookup of a key no insert wrote.
LookedUpAbsent ==
    /\ last.op \in {"get", "get_mut"}
    /\ fault = "none"
    /\ written[last.key] = None

\* C15 as stated (lookup exhaustion only mid-insert): a get or get_mut the
\* client calls on an absent key stops at an unoccupied cell before all L
\* cells have been visited.
ClientLookupNeverExhausts ==
    LookedUpAbsent =>
        /\ ~get_index_exhausts(cells, last.key)
        /\ \E i \in 0..(Len(cells) - 1) : ~cells[i + 1].taken

\* C15 as amended: a lookup of an absent key visits all L cells without a
\* break exactly when the table is completely full (taken_count = length),
\* a state the client observes between the insert that fills the last cell
\* and the next insert of a new key; otherwise it stops at an unoccupied
\* cell; in both cases it returns None.
LookupExhaustsIffFull ==
    /\ fault = "none" =>
           \A k \in Keys : CellsOf(cells, k) = {} =>
               /\ get_index_exhausts(cells, k) <=> taken_count = Len(cells)
               /\ taken_count < Len(cells) =>
                      ~cells[get_index_loop(cells, k, hash(k) % Len(cells),
                                            Len(cells)) + 1].taken
               /\ get_index(cells, k) = None
    /\ LookedUpAbsent =>
           /\ last.ret = None
           /\ get_index_exhausts(cells, last.key) <=> last.count0 = last.len0

\* get(34) called by the client on a full table of 23 cells: every cell is
\* visited and the result is None.
LookupExhaustsIffFullWitness ==
    /\ LookedUpAbsent
    /\ last.op = "get"
    /\ last.len0 = 2 * INITIAL_CAP + 1
    /\ last.count0 = last.len0
    /\ get_index_exhausts(cells, last.key)
    /\ last.ret = None

\* C16 (growth is atomic for the caller): while extend migrates, the table's
\* own cells and taken_count stay as they were at the call and only new_self
\* is written; the table changes in the one step that follows the last loop
\* iteration, to the completely migrated table, so every key is retrievable
\* from the table in every state.
GrowthAtomic ==
    [][/\ pc' = "extend" =>
              /\ cells' = cells
              /\ taken_count' = taken_count
              /\ Len(new_self'.cells) = 2 * Len(cells) + 1
       /\ (pc = "extend" /\ pc' # "extend") =>
              /\ cursor = Len(cells)
              /\ cells' = extend(self).cells
              /\ taken_count' = taken_count
              /\ Cardinality(Occupied(cells')) = Cardinality(Occupied(cells))
       /\ \A k \in Keys : get(cells', k) = written'[k]]_vars

\* Half-way through the migration of a full table: new_self holds some of
\* the entries, the table itself still holds all of them.
GrowthAtomicWitness ==
    /\ pc = "extend"
    /\ taken_count = Len(cells)
    /\ cursor \in 1..(Len(cells) - 1)
    /\ new_self.taken_count = cursor
    /\ Cardinality(Occupied(cells)) = Len(cells)
    /\ \A k \in Keys : get(cells, k) = written[k]

\* C19 (migration never recurses or updates): inside extend, the new table
\* has 2L+1 cells and holds one entry per occupied cell already visited (at
\* most L); the key of the next occupied cell is not in it and it is not
\* full, so its re-insertion takes the insertion path without a nested
\* extend; after the loop the new taken_count equals the old one.
MigrationNeverRecurses ==
    pc = "extend" =>
        /\ fault = "none"
        /\ Len(new_self.cells) = 2 * Len(cells) + 1
        /\ new_self.taken_count = Cardinality({i \in Occupied(cells) : i < cursor})
        /\ new_self.taken_count <= Len(cells)
        /\ (cursor < Len(cells) /\ cells[cursor + 1].taken) =>
               /\ get_mut(new_self.cells, cells[cursor + 1].key) = None
               /\ ~must_extend(new_self)
        /\ cursor = Len(cells) => new_self.taken_count = taken_count

\* The loop of extend has re-inserted all 23 entries of a full table.
MigrationNeverRecursesWitness ==
    /\ pc = "extend"
    /\ Len(cells) = 2 * INITIAL_CAP + 1
    /\ cursor = Len(cells)
    /\ taken_count = Len(cells)
    /\ new_self.taken_count = taken_count

\* C17 (length is monotone): no step decreases the length; get, get_mut,
\* updates and inserts of a new key into a table with room leave it as it
\* is; it changes only through extend (called by the client or by an insert
\* of a new key into a full table), from L to exactly 2L+1.
LengthMonotone ==
    [][LET L == Len(cells)
           absent == CellsOf(cells, last'.key) = {}
       IN  /\ Len(cells') >= L
           /\ Len(cells') # L => Len(cells') = 2 * L + 1 /\ Len(cells') > 2 * L
           /\ last'.op \in {"get", "get_mut"} => Len(cells') = L
           /\ (last'.op = "insert" /\ ~absent) => Len(cells') = L
           /\ (last'.op = "insert" /\ absent /\ taken_count < L) => Len(cells') = L
           /\ last'.op = "extend" => Len(cells') = 2 * L + 1]_vars

\* The second growth, from 23 to 47 cells, made by a client call of extend
\* on a table that was not full.
LengthMonotoneWitness ==
    /\ last.op = "extend"
    /\ fault = "none"
    /\ last.len0 = 2 * INITIAL_CAP + 1
    /\ last.count0 \in (INITIAL_CAP + 1)..(last.len0 - 1)
    /\ Len(cells) = 2 * last.len0 + 1

\* C18 (no-gap probe runs): for every occupied cell, every cell from the
\* home slot of its key up to it, in cyclic order, is occupied; so a lookup
\* that stops at an unoccupied cell is a lookup of an absent key, and the
\* lookup of a key held by an occupied cell finds that cell.
NoGapProbeRuns ==
    /\ \A i \in Occupied(cells) : PathOccupied(cells, i)
    /\ \A i \in Occupied(cells) : get_index(cells, cells[i + 1].key) = Some(i)
    /\ \A k \in Keys :
           LET stop == get_index_loop(cells, k, hash(k) % Len(cells), Len(cells))
           IN  ~cells[stop + 1].taken => CellsOf(cells, k) = {}

\* Key 21 sits in slot 0 of a full table of 11 cells, at the end of a probe
\* run that starts at its home slot 10 and wraps around.
NoGapProbeRunsWitness ==
    /\ Len(cells) = INITIAL_CAP
    /\ taken_count = INITIAL_CAP
    /\ cells[0 + 1].taken /\ cells[0 + 1].key = 21
    /\ cells[10 + 1].taken /\ cells[10 + 1].key = 10
    /\ get_index(cells, 21) = Some(0)
    /\ last.op = "insert"

\* C20 (occurrence counting through get_mut): in the benchmark loop a write
\* through the reference get_mut returned changes the value of the cell
\* that holds the key and nothing else (no key, no occupancy flag, not
\* taken_count, no other cell), and after any sequence of keys get(k) is
\* the number of occurrences of k for every key, through every growth.
CountsOccurrences ==
    [][/\ last'.op = "bump" =>
              /\ \E i \in CellsOf(cells, last'.key) :
                     /\ last'.ret = Some(i)
                     /\ cells' = [cells EXCEPT ![i + 1].value = cells[i + 1].value + 1]
              /\ Occupied(cells') = Occupied(cells)
              /\ taken_count' = taken_count
              /\ Len(cells') = Len(cells)
       /\ fault' = "none"
       /\ \A k \in Keys : get(cells', k) = written'[k]]_vars

\* Key 21 was counted a third time, through a reference into the table of
\* 47 cells reached by two growths; key 0 has been counted twice.
CountsOccurrencesWitness ==
    /\ last.op = "bump"
    /\ last.key = 21
    /\ Len(cells) = CapAfter(2)
    /\ get(cells, 21) = Some(3)
    /\ written[21] = Some(3)
    /\ get(cells, 0) = Some(2)
    /\ taken_count > 2 * INITIAL_CAP + 1
====
